---- MODULE Spec2Model ----
(***************************************************************************)
(* PushToGitHubDialog (app/components/@settings/tabs/connections/          *)
(* components/PushToGitHubDialog.tsx) as a state machine.                  *)
(*                                                                         *)
(* State: the component's useState cells, the stored connection            *)
(* (localStorage 'github_connection'), the isOpen prop, and the promises   *)
(* in flight (repository listing runs, branch fetches, existence checks,   *)
(* onPush calls).  Every handler is one action; a handler with awaits is   *)
(* one action per segment between awaits.  The effects a handler's state   *)
(* change triggers (useEffect) are part of the same action.                *)
(*                                                                         *)
(* Text the user types and names are sequences of one-character strings,   *)
(* so that trim, toLowerCase and includes are computed, not assumed.       *)
(* Messages and URLs, which the component only stores and shows, are       *)
(* plain strings.                                                          *)
(***************************************************************************)
EXTENDS Integers, Sequences, FiniteSets, TLC

\* ------------------------------------------------------------------ bounds

\* Most full pages (of PerPage entries) the account's listing holds.
MaxFullPages == 1
\* Most repository listing runs in flight together.
MaxRepoRuns == 1
\* Most branch fetches in flight together.
MaxBranchFetches == 2
\* Most repositories in a listing the comboboxes start from.
MaxListed == 2

\* per_page of the listing request, and the page length that ends the loop.
PerPage == 100

\* ----------------------------------------------------------------- strings

Null == "null"

WhiteSpace == {" "}

\* String.prototype.toLowerCase, on the model's alphabet.
ToLowerChar(c) ==
    IF c = "A" THEN "a" ELSE IF c = "B" THEN "b" ELSE c

ToLower(s) == [i \in 1..Len(s) |-> ToLowerChar(s[i])]

RECURSIVE TrimStart(_)
TrimStart(s) ==
    IF s # <<>> /\ Head(s) \in WhiteSpace THEN TrimStart(Tail(s)) ELSE s

RECURSIVE TrimEnd(_)
TrimEnd(s) ==
    IF s # <<>> /\ s[Len(s)] \in WhiteSpace
    THEN TrimEnd(SubSeq(s, 1, Len(s) - 1))
    ELSE s

\* String.prototype.trim
Trim(s) == TrimEnd(TrimStart(s))

\* String.prototype.includes
Includes(s, q) ==
    \E i \in 0..(Len(s) - Len(q)) : SubSeq(s, i + 1, i + Len(q)) = q

\* The characters of /^([a-zA-Z0-9._\-/]+)$/ on the model's alphabet.
BranchChars == {"a", "b", "A", "B", "m", "i", "n", ".", "-", "/", "_"}

BranchPatternTest(s) ==
    /\ Len(s) >= 1
    /\ \A i \in 1..Len(s) : s[i] \in BranchChars

Main == <<"m", "a", "i", "n">>
InitialCommit == <<"I", "n", "i", "t">>

\* What the user types into the commit message input.
CommitTexts == {InitialCommit, <<>>, <<" ">>, <<"a">>}

\* ------------------------------------------------------- GitHub, as seen

Login == "octocat"

NamePool == << <<"a">>, <<"A", "b">>, <<"B">> >>

\* The i-th entry of the account's listing (sort=updated order).
RepoAt(i) ==
    [ full_name   |-> i,
      name        |-> NamePool[((i - 1) % Len(NamePool)) + 1],
      description |-> IF i % 2 = 0 THEN <<"B">> ELSE <<>>,
      language    |-> IF i % 3 = 0 THEN <<"a">> ELSE <<>>,
      private     |-> (i % 2 = 0) ]

\* Page p of a listing of n entries, per_page = PerPage.
ListingPage(n, p) ==
    LET lo == (p - 1) * PerPage + 1
        hi == IF p * PerPage < n THEN p * PerPage ELSE n
    IN  IF lo > hi THEN <<>> ELSE [k \in 1..(hi - lo + 1) |-> RepoAt(lo + k - 1)]

\* The branches GitHub holds for a repository name.
ServerBranches(name) ==
    IF name = <<"a">> THEN <<Main>>
    ELSE IF name = <<"A", "b">> THEN <<Main, <<"a">>, <<"a", "B">>>>
    ELSE <<>>

\* Sizes the account's listing takes: around every multiple of PerPage.
AccountSizes ==
    {n \in UNION {{k * PerPage, k * PerPage + 1, k * PerPage + PerPage - 1} :
                    k \in 0..MaxFullPages} :
        n <= MaxFullPages * PerPage + 1}

\* The stored connection: absent (present = FALSE), or a record whose user
\* or token may be missing (Null user, empty token) or blank.
NoConnection == [present |-> FALSE, user |-> Null, token |-> <<>>]
Connections ==
    { NoConnection,
      [present |-> TRUE, user |-> Login, token |-> <<"a">>],
      [present |-> TRUE, user |-> Login, token |-> <<" ">>],
      [present |-> TRUE, user |-> Login, token |-> <<>>],
      [present |-> TRUE, user |-> Null, token |-> <<"a">>] }

Urls == {"https://github.com/octocat/a", "https://github.com/octocat/b"}
\* error.message of a rejection: may be empty.
ErrorTexts == {"", "Bad credentials"}

\* The files a push uploads, by name.
FileLists == {<<>>, << <<"a">> >>}

NoMessage == <<>>

IdleRun ==
    [active |-> FALSE, token |-> <<>>, page |-> 0, allRepos |-> <<>>,
     pages |-> <<>>, asked |-> <<>>]

\* History of a submission: the stage the last handleSubmit reached
\* ("none": not past its lookups, "failed", "checked"), the status each
\* lookup answered (0: not asked), whether the repository's visibility
\* differs from the one asked for, whether the confirmation was accepted,
\* and the form values it validated and looked up.
NoSubmission == [repoName |-> <<>>, branchName |-> <<>>, isPrivate |-> FALSE]
NoApproval ==
    [stage |-> "none", repo |-> 0, ref |-> 0, differs |-> FALSE,
     accepted |-> FALSE, checked |-> NoSubmission]

\* History of a push: how the promise settled, with what, and the files it
\* had uploaded.
NoPush == [outcome |-> "none", url |-> "", message |-> "", files |-> <<>>]

\* ---------------------------------------------------------------- state

VARIABLES
    isOpen,                \* prop
    connection,            \* localStorage 'github_connection'
    accountSize,           \* GitHub: entries the listing holds now
    repoName, branchName, branchOptions, isPrivate, isLoading, user,
    recentRepos, filteredRepos,
    repoSearchQuery, isRepoDropdownOpen, focusedRepoIndex,
    branchSearchQuery, isBranchDropdownOpen, focusedBranchIndex,
    showSuccessDialog, createdRepoUrl, showConfirmDialog, showCommitDialog,
    commitMessage, confirmDialogMessage, errorMessage,
    repoRuns,              \* fetchRecentRepos calls in flight
    branchFetches,         \* fetchBranches calls in flight
    checks,                \* handleSubmit calls awaiting GitHub
    pushes,                \* onPush calls in flight
    approval,              \* history: what the last handleSubmit met
    lastPush               \* history: how the last onPush call settled

comboVars ==
    <<repoSearchQuery, isRepoDropdownOpen, focusedRepoIndex,
      branchSearchQuery, isBranchDropdownOpen, focusedBranchIndex>>

formVars == <<repoName, branchName, isPrivate, commitMessage>>

dialogVars ==
    <<showSuccessDialog, createdRepoUrl, showConfirmDialog, showCommitDialog,
      confirmDialogMessage, errorMessage, isLoading>>

listVars == <<recentRepos, filteredRepos, branchOptions>>

flightVars == <<repoRuns, branchFetches, checks, pushes>>

historyVars == <<approval, lastPush>>

envVars == <<isOpen, connection, accountSize, user>>

vars ==
    <<envVars, formVars, comboVars, dialogVars, listVars, flightVars,
      historyVars>>

Init ==
    /\ isOpen = FALSE
    /\ connection = NoConnection
    /\ accountSize = 0
    /\ repoName = <<>>
    /\ branchName = Main
    /\ branchOptions = <<>>
    /\ isPrivate = FALSE
    /\ isLoading = FALSE
    /\ user = Null
    /\ recentRepos = <<>>
    /\ filteredRepos = <<>>
    /\ repoSearchQuery = <<>>
    /\ isRepoDropdownOpen = FALSE
    /\ focusedRepoIndex = -1
    /\ branchSearchQuery = <<>>
    /\ isBranchDropdownOpen = FALSE
    /\ focusedBranchIndex = -1
    /\ showSuccessDialog = FALSE
    /\ createdRepoUrl = ""
    /\ showConfirmDialog = FALSE
    /\ showCommitDialog = FALSE
    /\ commitMessage = InitialCommit
    /\ confirmDialogMessage = NoMessage
    /\ errorMessage = ""
    /\ repoRuns = [i \in 1..MaxRepoRuns |-> IdleRun]
    /\ branchFetches = <<>>
    /\ checks = <<>>
    /\ pushes = <<>>
    /\ approval = NoApproval
    /\ lastPush = NoPush

\* ------------------------------------------------------------- helpers

RemoveAt(seq, i) == SubSeq(seq, 1, i - 1) \o SubSeq(seq, i + 1, Len(seq))

RECURSIVE Flatten(_)
Flatten(pages) ==
    IF pages = <<>> THEN <<>> ELSE Head(pages) \o Flatten(Tail(pages))

\* connection?.user && connection?.token
HasUserAndToken(c) == c.present /\ c.user # Null /\ c.token # <<>>

Names(repos) == [i \in 1..Len(repos) |-> repos[i].name]

\* The effect on [recentRepos, repoSearchQuery] that keeps filteredRepos.
FilteredReposEffect(repos, query) ==
    IF Len(repos) = 0 THEN <<>>
    ELSE IF Trim(query) = <<>> THEN repos
    ELSE LET q == Trim(ToLower(query))
         IN  SelectSeq(repos, LAMBDA repo :
                \/ Includes(ToLower(repo.name), q)
                \/ (repo.description # <<>> /\ Includes(ToLower(repo.description), q))
                \/ (repo.language # <<>> /\ Includes(ToLower(repo.language), q)))

\* What the component renders.
SuccessView == showSuccessDialog
ConnectionRequiredView == ~showSuccessDialog /\ user = Null
MainView == ~showSuccessDialog /\ user # Null
\* The confirmation and commit-message dialogs are rendered by the main view,
\* outside the Dialog.Portal that isOpen controls; both are modal.
ConfirmDialogShown == MainView /\ showConfirmDialog
CommitDialogShown == MainView /\ showCommitDialog
MainFormActive ==
    MainView /\ isOpen /\ ~showConfirmDialog /\ ~showCommitDialog

\* The effect on [repoName]: fetchBranches.
BranchEffect(newName) ==
    IF newName = repoName
    THEN UNCHANGED <<branchOptions, branchFetches>>
    ELSE IF Trim(newName) = <<>>
    THEN branchOptions' = <<>> /\ UNCHANGED branchFetches
    ELSE IF ~(connection.present /\ connection.token # <<>> /\ connection.user # Null)
    THEN UNCHANGED <<branchOptions, branchFetches>>
    ELSE /\ Len(branchFetches) < MaxBranchFetches
         /\ branchFetches' = Append(branchFetches, [repo |-> newName])
         /\ UNCHANGED branchOptions

\* The same with the query cleared whenever the dropdown closes.
RepoComboEffectClearing(query, open, focus) ==
    /\ repoSearchQuery' = IF open THEN query ELSE <<>>
    /\ isRepoDropdownOpen' = open
    /\ focusedRepoIndex' = -1
    /\ filteredRepos' = FilteredReposEffect(recentRepos, repoSearchQuery')

\* The effects on [repoSearchQuery, isRepoDropdownOpen] and on
\* [recentRepos, repoSearchQuery], after the handler set query, open flag
\* and focus index.
RepoComboEffect(query, open, focus) ==
    /\ repoSearchQuery' = query
    /\ isRepoDropdownOpen' = open
    /\ focusedRepoIndex' =
          IF query # repoSearchQuery \/ open # isRepoDropdownOpen
          THEN -1 ELSE focus
    /\ filteredRepos' = FilteredReposEffect(recentRepos, query)

BranchComboEffect(query, open, focus) ==
    /\ branchSearchQuery' = query
    /\ isBranchDropdownOpen' = open
    /\ focusedBranchIndex' =
          IF query # branchSearchQuery \/ open # isBranchDropdownOpen
          THEN -1 ELSE focus

\* ------------------------------------------------- the host and GitHub

\* Settings > Connections (or another tab) stores or removes the connection.
StoreConnection(c) ==
    /\ c # connection
    /\ connection' = c
    /\ UNCHANGED <<isOpen, accountSize, user, formVars, comboVars, dialogVars,
                   listVars, flightVars, historyVars>>

\* Repositories are created or deleted on GitHub.
AccountChanges(n) ==
    /\ n # accountSize
    /\ accountSize' = n
    /\ UNCHANGED <<isOpen, connection, user, formVars, comboVars, dialogVars,
                   listVars, flightVars, historyVars>>

\* A fetchRecentRepos call: its token, page and allRepos, and as history
\* the pages answered and the page numbers asked for so far.
NewRun(token) ==
    [active |-> TRUE, token |-> token, page |-> 1, allRepos |-> <<>>,
     pages |-> <<>>, asked |-> <<1>>]

IdleSlots == {i \in 1..MaxRepoRuns : ~repoRuns[i].active}
FirstIdle == CHOOSE i \in IdleSlots : \A j \in IdleSlots : i <= j

\* The host opens the dialog; the connection loader effect runs.
OpenDialog ==
    /\ ~isOpen
    /\ isOpen' = TRUE
    /\ IF HasUserAndToken(connection)
       THEN /\ user' = connection.user
            /\ IF Trim(connection.token) # <<>>
               THEN /\ IdleSlots # {}
                    /\ repoRuns' = [repoRuns EXCEPT ![FirstIdle] =
                                       NewRun(connection.token)]
               ELSE UNCHANGED repoRuns
       ELSE UNCHANGED <<user, repoRuns>>
    /\ UNCHANGED <<connection, accountSize, formVars, comboVars, dialogVars,
                   listVars, branchFetches, checks, pushes, historyVars>>

\* Every view has a close control (button, Escape, overlay); the main view's
\* is covered while the confirmation or commit-message dialog is shown.
CloseOffered ==
    isOpen /\ (SuccessView \/ ConnectionRequiredView \/ MainFormActive)

\* handleClose, onClose making isOpen false, and the reset effect.
HandleClose ==
    /\ CloseOffered
    /\ isOpen' = FALSE
    /\ BranchEffect(<<>>)
    /\ repoName' = <<>>
    /\ isPrivate' = FALSE
    /\ showSuccessDialog' = FALSE
    /\ createdRepoUrl' = ""
    /\ RepoComboEffect(<<>>, FALSE, -1)
    /\ branchName' = Main
    /\ BranchComboEffect(<<>>, FALSE, -1)
    /\ errorMessage' = ""
    /\ showConfirmDialog' = FALSE
    /\ showCommitDialog' = FALSE
    /\ commitMessage' = InitialCommit
    /\ confirmDialogMessage' = NoMessage
    /\ lastPush' = NoPush
    /\ UNCHANGED <<connection, accountSize, user, isLoading, recentRepos,
                   repoRuns, checks, pushes, approval>>

\* ------------------------------------------------------ fetchRecentRepos

RepoResponses == {"ok", "unauthorized", "error", "unparsable", "exception"}

\* AfterPage going on until a page is empty.
AfterPageUntilEmpty(run, repos) ==
    IF Len(repos) = 0
    THEN [hasMore |-> FALSE, page |-> run.page]
    ELSE [hasMore |-> TRUE, page |-> run.page + 1]

\* The loop's decision after a page was parsed: [hasMore, page].
AfterPage(run, repos) ==
    IF Len(repos) < PerPage
    THEN [hasMore |-> FALSE, page |-> run.page]
    ELSE [hasMore |-> TRUE, page |-> run.page + 1]

\* Concat with its operands swapped.
ConcatSwapped(allRepos, repos) == repos \o allRepos

\* allRepos = allRepos.concat(repos)
Concat(allRepos, repos) == allRepos \o repos

\* Every failure emptying recentRepos.
AfterFailureClears(kind) == <<>>

\* What ends a run without a listing leaves in recentRepos.
AfterFailure(kind) ==
    IF kind = "unparsable" THEN <<>> ELSE recentRepos

\* The request of run i is answered.
RepoPageResponds(i, kind) ==
    /\ i \in 1..MaxRepoRuns
    /\ repoRuns[i].active
    /\ repoRuns[i].page <= MaxFullPages + 1
    /\ LET run   == repoRuns[i]
           repos == ListingPage(accountSize, run.page)
           all   == Concat(run.allRepos, repos)
           pages == Append(run.pages, repos)
           next  == AfterPage(run, repos)
       IN  IF kind = "ok" /\ next.hasMore
           THEN /\ repoRuns' = [repoRuns EXCEPT ![i] =
                       [run EXCEPT !.page = next.page, !.allRepos = all,
                                   !.pages = pages,
                                   !.asked = Append(run.asked, next.page)]]
                /\ UNCHANGED <<recentRepos, filteredRepos, connection, user>>
           ELSE /\ repoRuns' = [repoRuns EXCEPT ![i] = IdleRun]
                /\ recentRepos' = IF kind = "ok" THEN all ELSE AfterFailure(kind)
                /\ filteredRepos' = FilteredReposEffect(recentRepos', repoSearchQuery)
                /\ IF kind = "unauthorized" /\ connection.present
                   THEN connection' = NoConnection /\ user' = Null
                   ELSE UNCHANGED <<connection, user>>
    /\ UNCHANGED <<isOpen, accountSize, formVars, comboVars, dialogVars,
                   branchOptions, branchFetches, checks, pushes, historyVars>>

\* --------------------------------------------------------- fetchBranches

\* The branch request of fetch i is answered: with the repository's
\* branches, or not ok / not an array / an exception.
BranchesRespond(i, ok) ==
    /\ i \in 1..Len(branchFetches)
    /\ branchOptions' =
          IF ok THEN ServerBranches(branchFetches[i].repo) ELSE <<>>
    /\ branchFetches' = RemoveAt(branchFetches, i)
    /\ UNCHANGED <<envVars, formVars, comboVars, dialogVars, recentRepos,
                   filteredRepos, repoRuns, checks, pushes, historyVars>>

\* ---------------------------------------------------------- handleSubmit

NotConnectedText == "Please connect your GitHub account in Settings > Connections first"
RepoRequiredText == "Repository name is required"
BranchInvalidText == "Please enter a valid branch name."
CheckFailedText == "Failed to check repository."
PushFailedText == "Failed to push to GitHub."
NullReadText == "Cannot read properties of null"

\* The submit button left enabled while loading.
SubmitOfferedWhileLoading ==
    /\ MainFormActive
    /\ repoSearchQuery # <<>>
    /\ (repoName = <<>> \/ branchSearchQuery # <<>>)

\* The form submits through its submit button (disabled while loading),
\* and the browser holds back a form whose required inputs are empty; the
\* branch input is disabled, hence exempt, while repoName is empty.
SubmitOffered ==
    /\ MainFormActive
    /\ ~isLoading
    /\ repoSearchQuery # <<>>
    /\ (repoName = <<>> \/ branchSearchQuery # <<>>)

\* The validation without its look at the stored connection.
ValidateFormOnly(c, repo, branch) ==
    IF Trim(repo) = <<>> THEN RepoRequiredText
    ELSE IF Trim(branch) = <<>> \/ ~BranchPatternTest(branch) THEN BranchInvalidText
    ELSE ""

\* What handleSubmit's validation answers: "" when it passes.
Validate(c, repo, branch) ==
    IF ~(c.present /\ c.token # <<>> /\ c.user # Null) THEN NotConnectedText
    ELSE IF Trim(repo) = <<>> THEN RepoRequiredText
    ELSE IF Trim(branch) = <<>> \/ ~BranchPatternTest(branch) THEN BranchInvalidText
    ELSE ""

\* handleSubmit up to its first await.
HandleSubmit ==
    /\ SubmitOffered
    /\ LET verdict == Validate(connection, repoName, branchName)
       IN  IF verdict # ""
           THEN /\ errorMessage' = verdict
                /\ approval' = NoApproval
                /\ UNCHANGED <<isLoading, checks>>
           ELSE /\ errorMessage' = ""
                /\ isLoading' = TRUE
                /\ approval' = [NoApproval EXCEPT !.checked =
                      [repoName |-> repoName, branchName |-> branchName,
                       isPrivate |-> isPrivate]]
                /\ checks' = Append(checks,
                      [repoName |-> repoName, branchName |-> branchName,
                       isPrivate |-> isPrivate, awaiting |-> "repo",
                       repoPrivate |-> FALSE])
    /\ UNCHANGED <<envVars, formVars, comboVars, listVars, showSuccessDialog,
                   createdRepoUrl, showConfirmDialog, showCommitDialog,
                   confirmDialogMessage, repoRuns, branchFetches, pushes,
                   lastPush>>

\* Answers of octokit.repos.get and octokit.git.getRef: a status and, for a
\* failure, the error's message.
RepoAnswers ==
    [status : {200}, private : BOOLEAN, message : {""}]
        \cup [status : {404, 500}, private : {FALSE}, message : ErrorTexts]
RefAnswers == [status : {200}, message : {""}] \cup [status : {404, 500}, message : ErrorTexts]

\* NeedsConfirm without the visibility comparison.
NeedsConfirmBranchOnly(repoExists, branchExists, repoPrivate, wantPrivate) ==
    repoExists /\ branchExists

\* Only show confirm dialog if repo exists and (branch exists or visibility changes)
NeedsConfirm(repoExists, branchExists, repoPrivate, wantPrivate) ==
    repoExists /\ (branchExists \/ repoPrivate # wantPrivate)

ConfirmMessage(check, branchExists) ==
    [branch |-> Trim(check.branchName), repo |-> check.repoName,
     branchExists |-> branchExists,
     visibility |-> IF check.repoPrivate = check.isPrivate THEN "same"
                    ELSE IF check.isPrivate THEN "to private" ELSE "to public"]

\* The end of handleSubmit once both lookups are settled.
\* SubmitDecides leaving isLoading set when it asks for confirmation.
SubmitDecidesKeepsLoading(check, repoExists, branchExists) ==
    IF NeedsConfirm(repoExists, branchExists, check.repoPrivate, check.isPrivate)
    THEN /\ confirmDialogMessage' = ConfirmMessage(check, branchExists)
         /\ showConfirmDialog' = TRUE
         /\ UNCHANGED <<showCommitDialog, errorMessage, isLoading>>
    ELSE /\ showCommitDialog' = TRUE
         /\ isLoading' = FALSE
         /\ UNCHANGED <<showConfirmDialog, confirmDialogMessage, errorMessage>>

SubmitDecides(check, repoExists, branchExists) ==
    IF NeedsConfirm(repoExists, branchExists, check.repoPrivate, check.isPrivate)
    THEN /\ confirmDialogMessage' = ConfirmMessage(check, branchExists)
         /\ showConfirmDialog' = TRUE
         /\ isLoading' = FALSE
         /\ UNCHANGED <<showCommitDialog, errorMessage>>
    ELSE /\ showCommitDialog' = TRUE
         /\ isLoading' = FALSE
         /\ UNCHANGED <<showConfirmDialog, confirmDialogMessage, errorMessage>>

\* SubmitFails going on to the commit-message dialog.
SubmitFailsOpensCommit(message) ==
    /\ isLoading' = FALSE
    /\ errorMessage' = IF message # "" THEN message ELSE CheckFailedText
    /\ showCommitDialog' = TRUE
    /\ UNCHANGED <<showConfirmDialog, confirmDialogMessage>>

\* handleSubmit's outermost catch.
SubmitFails(message) ==
    /\ isLoading' = FALSE
    /\ errorMessage' = IF message # "" THEN message ELSE CheckFailedText
    /\ UNCHANGED <<showConfirmDialog, showCommitDialog, confirmDialogMessage>>

\* MeansMissing taking every failure for a 404.
MeansMissingAlways(answer) == TRUE

\* Whether a lookup's failure means "does not exist".
MeansMissing(answer) == answer.status = 404

\* octokit.repos.get of check i settles.
CheckRepoResponds(i, answer) ==
    /\ i \in 1..Len(checks)
    /\ checks[i].awaiting = "repo"
    /\ IF answer.status = 200
       THEN /\ checks' = [checks EXCEPT ![i].awaiting = "ref",
                                        ![i].repoPrivate = answer.private]
            /\ UNCHANGED <<showConfirmDialog, showCommitDialog, isLoading,
                           confirmDialogMessage, errorMessage>>
       ELSE /\ checks' = RemoveAt(checks, i)
            /\ IF MeansMissing(answer)
               THEN SubmitDecides(checks[i], FALSE, FALSE)
               ELSE SubmitFails(answer.message)
    /\ approval' =
          [approval EXCEPT
              !.repo = answer.status,
              !.differs = (answer.status = 200 /\ answer.private # checks[i].isPrivate),
              !.stage = IF answer.status = 200 THEN "none"
                        ELSE IF answer.status = 404 THEN "checked" ELSE "failed"]
    /\ UNCHANGED <<envVars, formVars, comboVars, listVars, showSuccessDialog,
                   createdRepoUrl, repoRuns, branchFetches, pushes, lastPush>>

\* octokit.git.getRef of check i settles.
CheckRefResponds(i, answer) ==
    /\ i \in 1..Len(checks)
    /\ checks[i].awaiting = "ref"
    /\ checks' = RemoveAt(checks, i)
    /\ IF answer.status = 200 THEN SubmitDecides(checks[i], TRUE, TRUE)
       ELSE IF MeansMissing(answer) THEN SubmitDecides(checks[i], TRUE, FALSE)
       ELSE SubmitFails(answer.message)
    /\ approval' =
          [approval EXCEPT
              !.ref = answer.status,
              !.stage = IF answer.status \in {200, 404} THEN "checked" ELSE "failed"]
    /\ UNCHANGED <<envVars, formVars, comboVars, listVars, showSuccessDialog,
                   createdRepoUrl, repoRuns, branchFetches, pushes, lastPush>>

\* ------------------------------------------- confirmation, commit, push

HandleConfirmProceed ==
    /\ ConfirmDialogShown
    /\ showConfirmDialog' = FALSE
    /\ showCommitDialog' = TRUE
    /\ approval' = [approval EXCEPT !.accepted = TRUE]
    /\ UNCHANGED <<envVars, formVars, comboVars, listVars, flightVars,
                   showSuccessDialog, createdRepoUrl, confirmDialogMessage,
                   errorMessage, isLoading, lastPush>>

\* ConfirmationDialog's onClose.
ConfirmDialogClose ==
    /\ ConfirmDialogShown
    /\ showConfirmDialog' = FALSE
    /\ UNCHANGED <<envVars, formVars, comboVars, listVars, flightVars,
                   showSuccessDialog, createdRepoUrl, showCommitDialog,
                   confirmDialogMessage, errorMessage, isLoading, historyVars>>

\* The commit-message dialog's Cancel, Escape or overlay.
CommitDialogClose ==
    /\ CommitDialogShown
    /\ showCommitDialog' = FALSE
    /\ UNCHANGED <<envVars, formVars, comboVars, listVars, flightVars,
                   showSuccessDialog, createdRepoUrl, showConfirmDialog,
                   confirmDialogMessage, errorMessage, isLoading, historyVars>>

CommitMessageChange(text) ==
    /\ CommitDialogShown
    /\ text # commitMessage
    /\ commitMessage' = text
    /\ UNCHANGED <<envVars, repoName, branchName, isPrivate, comboVars,
                   listVars, flightVars, dialogVars, historyVars>>

\* The commit form's submit button: disabled={isLoading || !commitMessage.trim()}
CommitOffered ==
    CommitDialogShown /\ ~isLoading /\ Trim(commitMessage) # <<>>

\* handleCommitProceed up to the onPush call; reading connection.user.login
\* of a missing connection or user throws, which the catch turns into
\* errorMessage.
HandleCommitProceed ==
    /\ CommitOffered
    /\ showCommitDialog' = FALSE
    /\ IF connection.present /\ connection.user # Null
       THEN /\ isLoading' = TRUE
            /\ errorMessage' = ""
            /\ pushes' = Append(pushes,
                  [repoName |-> repoName, username |-> connection.user,
                   token |-> connection.token, isPrivate |-> isPrivate,
                   branchName |-> branchName, commitMessage |-> commitMessage,
                   via |-> approval])
            /\ approval' = NoApproval
       ELSE /\ isLoading' = FALSE
            /\ errorMessage' = NullReadText
            /\ UNCHANGED <<pushes, approval>>
    /\ lastPush' = NoPush
    /\ UNCHANGED <<envVars, formVars, comboVars, listVars, repoRuns,
                   branchFetches, checks, showSuccessDialog, createdRepoUrl,
                   showConfirmDialog, confirmDialogMessage>>

\* onPush call i resolves with the repository's URL, having uploaded files.
PushResolves(i, url, files) ==
    /\ i \in 1..Len(pushes)
    /\ pushes' = RemoveAt(pushes, i)
    /\ createdRepoUrl' = url
    /\ showSuccessDialog' = TRUE
    /\ isLoading' = FALSE
    /\ lastPush' = [outcome |-> "resolved", url |-> url, message |-> "",
                     files |-> files]
    /\ UNCHANGED <<envVars, formVars, comboVars, listVars, repoRuns,
                   branchFetches, checks, showConfirmDialog, showCommitDialog,
                   confirmDialogMessage, errorMessage, approval>>

\* PushRejects without the fallback text.
PushRejectsNoFallback(i, message) ==
    /\ i \in 1..Len(pushes)
    /\ pushes' = RemoveAt(pushes, i)
    /\ errorMessage' = message
    /\ isLoading' = FALSE
    /\ lastPush' = [outcome |-> "rejected", url |-> "", message |-> message,
                     files |-> <<>>]
    /\ UNCHANGED <<envVars, formVars, comboVars, listVars, repoRuns,
                   branchFetches, checks, showSuccessDialog, createdRepoUrl,
                   showConfirmDialog, showCommitDialog, confirmDialogMessage,
                   approval>>

\* onPush call i rejects.
PushRejects(i, message) ==
    /\ i \in 1..Len(pushes)
    /\ pushes' = RemoveAt(pushes, i)
    /\ errorMessage' = IF message # "" THEN message ELSE PushFailedText
    /\ isLoading' = FALSE
    /\ lastPush' = [outcome |-> "rejected", url |-> "", message |-> message,
                     files |-> <<>>]
    /\ UNCHANGED <<envVars, formVars, comboVars, listVars, repoRuns,
                   branchFetches, checks, showSuccessDialog, createdRepoUrl,
                   showConfirmDialog, showCommitDialog, confirmDialogMessage,
                   approval>>

\* ------------------------------------------------------------ comboboxes

\* The filter comparing the characters as typed.
FilteredListCaseSensitive(options, query) ==
    IF Trim(query) = <<>> THEN options
    ELSE SelectSeq(options, LAMBDA o : Includes(o, query))

\* filteredReposList / filteredBranchesList, on the options' names.
FilteredList(options, query) ==
    IF Trim(query) = <<>> THEN options
    ELSE SelectSeq(options, LAMBDA o : Includes(ToLower(o), ToLower(query)))

\* showCreateNewRepo / showCreateNewBranch
ShowCreateNew(options, query) ==
    /\ Trim(query) # <<>>
    /\ ~\E i \in 1..Len(options) : ToLower(options[i]) = ToLower(Trim(query))

filteredReposList == FilteredList(Names(recentRepos), repoSearchQuery)
showCreateNewRepo == ShowCreateNew(Names(recentRepos), repoSearchQuery)
filteredBranchesList == FilteredList(branchOptions, branchSearchQuery)
showCreateNewBranch == ShowCreateNew(branchOptions, branchSearchQuery)

\* The dropdown's empty state: 'No repositories found.' / 'No branches found.'
ShowsNothingFound(list, createNew) == Len(list) = 0 /\ ~createNew

Keys == {"Escape", "ArrowDown", "ArrowUp", "Enter"}

\* The focus index after ArrowDown / ArrowUp (indexes from 0, -1: no focus).
ArrowDown(prev, list, createNew) ==
    LET max == IF createNew THEN Len(list) ELSE Len(list) - 1
    IN  IF prev + 1 > max THEN 0 ELSE prev + 1

ArrowUp(prev, list, createNew) ==
    LET max == IF createNew THEN Len(list) ELSE Len(list) - 1
    IN  IF prev - 1 < 0 THEN max ELSE prev - 1

\* Enter picking a focused option only.
EnterPickNeedsFocus(focus, list, createNew, query) ==
    IF focus >= 0 /\ focus < Len(list)
    THEN [picked |-> TRUE, name |-> list[focus + 1], created |-> FALSE]
    ELSE IF createNew /\ focus = Len(list)
    THEN [picked |-> TRUE, name |-> Trim(query), created |-> TRUE]
    ELSE [picked |-> FALSE, name |-> <<>>, created |-> FALSE]

\* What Enter picks: [picked, name].
EnterPick(focus, list, createNew, query) ==
    IF focus >= 0 /\ focus < Len(list)
    THEN [picked |-> TRUE, name |-> list[focus + 1], created |-> FALSE]
    ELSE IF createNew /\ focus = Len(list)
    THEN [picked |-> TRUE, name |-> Trim(query), created |-> TRUE]
    ELSE IF createNew /\ Len(list) = 0
    THEN [picked |-> TRUE, name |-> Trim(query), created |-> TRUE]
    ELSE [picked |-> FALSE, name |-> <<>>, created |-> FALSE]

RepoInputUsable == MainFormActive
BranchInputUsable == MainFormActive /\ repoName # <<>>

\* An input takes the focus once the other one lost it: the blur handler and
\* the mousedown listener have closed the other dropdown by then.
RepoInputTakesFocus == RepoInputUsable /\ ~isBranchDropdownOpen
BranchInputTakesFocus == BranchInputUsable /\ ~isRepoDropdownOpen

\* The repo input's onChange.
RepoInputChange(text) ==
    /\ RepoInputTakesFocus
    /\ text # repoSearchQuery
    /\ RepoComboEffect(text, TRUE, focusedRepoIndex)
    /\ LET name == IF text = <<>> THEN <<>> ELSE repoName
       IN  BranchEffect(name) /\ repoName' = name
    /\ UNCHANGED <<envVars, branchName, isPrivate, commitMessage,
                   branchSearchQuery, isBranchDropdownOpen, focusedBranchIndex,
                   dialogVars, recentRepos, repoRuns, checks, pushes,
                   historyVars>>

\* onFocus opens the dropdown; blur or a click outside closes it.
RepoDropdownSet(open) ==
    /\ IF open THEN RepoInputTakesFocus ELSE RepoInputUsable
    /\ open # isRepoDropdownOpen
    /\ RepoComboEffect(repoSearchQuery, open, focusedRepoIndex)
    /\ UNCHANGED <<envVars, formVars, branchSearchQuery, isBranchDropdownOpen,
                   focusedBranchIndex, dialogVars, recentRepos, branchOptions,
                   flightVars, historyVars>>

\* A repo option's onClick (k from 1), or the 'create new' option's.
RepoOptionClick(k) ==
    /\ RepoInputUsable /\ isRepoDropdownOpen
    /\ k \in 1..Len(filteredReposList)
    /\ LET name == filteredReposList[k]
       IN  /\ BranchEffect(name) /\ repoName' = name
           /\ RepoComboEffect(name, FALSE, focusedRepoIndex)
    /\ UNCHANGED <<envVars, branchName, isPrivate, commitMessage,
                   branchSearchQuery, isBranchDropdownOpen, focusedBranchIndex,
                   dialogVars, recentRepos, repoRuns, checks, pushes,
                   historyVars>>

RepoCreateNewClick ==
    /\ RepoInputUsable /\ isRepoDropdownOpen
    /\ showCreateNewRepo
    /\ LET name == Trim(repoSearchQuery)
       IN  /\ BranchEffect(name) /\ repoName' = name
           /\ RepoComboEffect(name, FALSE, focusedRepoIndex)
    /\ UNCHANGED <<envVars, branchName, isPrivate, commitMessage,
                   branchSearchQuery, isBranchDropdownOpen, focusedBranchIndex,
                   dialogVars, recentRepos, repoRuns, checks, pushes,
                   historyVars>>

handleRepoKeyDown(key) ==
    /\ RepoInputUsable
    /\ IF ~isRepoDropdownOpen
       THEN UNCHANGED <<repoName, branchOptions, branchFetches,
                        repoSearchQuery, isRepoDropdownOpen, focusedRepoIndex,
                        filteredRepos>>
       ELSE IF key = "Escape"
       THEN /\ RepoComboEffect(repoSearchQuery, FALSE, focusedRepoIndex)
            /\ UNCHANGED <<repoName, branchOptions, branchFetches>>
       ELSE IF key = "ArrowDown"
       THEN /\ RepoComboEffect(repoSearchQuery, TRUE,
                  ArrowDown(focusedRepoIndex, filteredReposList, showCreateNewRepo))
            /\ UNCHANGED <<repoName, branchOptions, branchFetches>>
       ELSE IF key = "ArrowUp"
       THEN /\ RepoComboEffect(repoSearchQuery, TRUE,
                  ArrowUp(focusedRepoIndex, filteredReposList, showCreateNewRepo))
            /\ UNCHANGED <<repoName, branchOptions, branchFetches>>
       ELSE LET pick == EnterPick(focusedRepoIndex, filteredReposList,
                                  showCreateNewRepo, repoSearchQuery)
            IN  IF pick.picked
                THEN /\ BranchEffect(pick.name) /\ repoName' = pick.name
                     /\ RepoComboEffect(<<>>, FALSE, focusedRepoIndex)
                ELSE UNCHANGED <<repoName, branchOptions, branchFetches,
                                 repoSearchQuery, isRepoDropdownOpen,
                                 focusedRepoIndex, filteredRepos>>
    /\ UNCHANGED <<envVars, branchName, isPrivate, commitMessage,
                   branchSearchQuery, isBranchDropdownOpen, focusedBranchIndex,
                   dialogVars, recentRepos, repoRuns, checks, pushes,
                   historyVars>>

\* The branch input's onChange.
BranchInputChange(text) ==
    /\ BranchInputTakesFocus
    /\ text # branchSearchQuery
    /\ BranchComboEffect(text, TRUE, focusedBranchIndex)
    /\ branchName' = IF text = <<>> THEN <<>> ELSE branchName
    /\ UNCHANGED <<envVars, repoName, isPrivate, commitMessage,
                   repoSearchQuery, isRepoDropdownOpen, focusedRepoIndex,
                   dialogVars, listVars, flightVars, historyVars>>

BranchDropdownSet(open) ==
    /\ IF open THEN BranchInputTakesFocus ELSE BranchInputUsable
    /\ open # isBranchDropdownOpen
    /\ BranchComboEffect(branchSearchQuery, open, focusedBranchIndex)
    /\ UNCHANGED <<envVars, formVars, repoSearchQuery, isRepoDropdownOpen,
                   focusedRepoIndex, dialogVars, listVars, flightVars,
                   historyVars>>

BranchOptionClick(k) ==
    /\ BranchInputUsable /\ isBranchDropdownOpen
    /\ k \in 1..Len(filteredBranchesList)
    /\ branchName' = filteredBranchesList[k]
    /\ BranchComboEffect(filteredBranchesList[k], FALSE, focusedBranchIndex)
    /\ UNCHANGED <<envVars, repoName, isPrivate, commitMessage,
                   repoSearchQuery, isRepoDropdownOpen, focusedRepoIndex,
                   dialogVars, listVars, flightVars, historyVars>>

BranchCreateNewClick ==
    /\ BranchInputUsable /\ isBranchDropdownOpen
    /\ showCreateNewBranch
    /\ branchName' = Trim(branchSearchQuery)
    /\ BranchComboEffect(Trim(branchSearchQuery), FALSE, focusedBranchIndex)
    /\ UNCHANGED <<envVars, repoName, isPrivate, commitMessage,
                   repoSearchQuery, isRepoDropdownOpen, focusedRepoIndex,
                   dialogVars, listVars, flightVars, historyVars>>

handleBranchKeyDown(key) ==
    /\ BranchInputUsable
    /\ IF ~isBranchDropdownOpen
       THEN UNCHANGED <<branchName, branchSearchQuery, isBranchDropdownOpen,
                        focusedBranchIndex>>
       ELSE IF key = "Escape"
       THEN /\ BranchComboEffect(branchSearchQuery, FALSE, focusedBranchIndex)
            /\ UNCHANGED branchName
       ELSE IF key = "ArrowDown"
       THEN /\ BranchComboEffect(branchSearchQuery, TRUE,
                  ArrowDown(focusedBranchIndex, filteredBranchesList,
                            showCreateNewBranch))
            /\ UNCHANGED branchName
       ELSE IF key = "ArrowUp"
       THEN /\ BranchComboEffect(branchSearchQuery, TRUE,
                  ArrowUp(focusedBranchIndex, filteredBranchesList,
                          showCreateNewBranch))
            /\ UNCHANGED branchName
       ELSE LET pick == EnterPick(focusedBranchIndex, filteredBranchesList,
                                  showCreateNewBranch, branchSearchQuery)
            IN  IF pick.picked
                THEN /\ branchName' = pick.name
                     /\ BranchComboEffect(pick.name, FALSE, focusedBranchIndex)
                ELSE UNCHANGED <<branchName, branchSearchQuery,
                                 isBranchDropdownOpen, focusedBranchIndex>>
    /\ UNCHANGED <<envVars, repoName, isPrivate, commitMessage,
                   repoSearchQuery, isRepoDropdownOpen, focusedRepoIndex,
                   dialogVars, listVars, flightVars, historyVars>>

\* The 'Make repository private' checkbox.
PrivateChange ==
    /\ MainFormActive
    /\ isPrivate' = ~isPrivate
    /\ UNCHANGED <<envVars, repoName, branchName, commitMessage, comboVars,
                   dialogVars, listVars, flightVars, historyVars>>

\* -------------------------------------------------------- specifications

\* The submission workflow: the form filled in by typing and 'create new',
\* a connection stored or removed, an account without repositories.
RepoTexts == {<<>>, <<"a">>}
BranchTexts == {<<>>, <<"~">>}
Connected == [present |-> TRUE, user |-> Login, token |-> <<"a">>]

Next ==
    \/ OpenDialog
    \/ HandleClose
    \/ \E c \in {NoConnection, Connected} : StoreConnection(c)
    \/ \E i \in 1..MaxRepoRuns, kind \in {"ok", "unauthorized"} :
          RepoPageResponds(i, kind)
    \/ \E i \in 1..Len(branchFetches) : BranchesRespond(i, FALSE)
    \/ \E text \in RepoTexts : RepoInputChange(text)
    \/ RepoCreateNewClick
    \/ \E text \in BranchTexts : BranchInputChange(text)
    \/ BranchCreateNewClick
    \/ PrivateChange
    \/ HandleSubmit
    \/ \E i \in 1..Len(checks), answer \in RepoAnswers : CheckRepoResponds(i, answer)
    \/ \E i \in 1..Len(checks), answer \in RefAnswers : CheckRefResponds(i, answer)
    \/ HandleConfirmProceed
    \/ ConfirmDialogClose
    \/ CommitDialogClose
    \/ \E text \in {InitialCommit, <<" ">>} : CommitMessageChange(text)
    \/ HandleCommitProceed
    \/ \E i \in 1..Len(pushes), url \in Urls, files \in FileLists :
          PushResolves(i, url, files)
    \/ \E i \in 1..Len(pushes), message \in ErrorTexts : PushRejects(i, message)

Spec == Init /\ [][Next]_vars

\* The success view's list under 'Pushed Files' ({filteredRepos.map ...}),
\* by name; its count is the list's length.
PushedFilesShown == Names(filteredRepos)

\* The listing and the account sizes of the specification of the listing.
NextListing ==
    \/ OpenDialog
    \/ HandleClose
    \/ \E c \in Connections : StoreConnection(c)
    \/ \E n \in AccountSizes : AccountChanges(n)
    \/ \E i \in 1..MaxRepoRuns, kind \in RepoResponses : RepoPageResponds(i, kind)

SpecListing == Init /\ [][NextListing]_vars

\* Every request is answered in the end.
SpecListingFair ==
    /\ SpecListing
    /\ \A i \in 1..MaxRepoRuns :
          WF_vars(\E kind \in RepoResponses : RepoPageResponds(i, kind))

\* The branch lister: repositories picked one after the other while branch
\* requests are in flight.
NextBranches ==
    \/ OpenDialog
    \/ HandleClose
    \/ \E c \in {NoConnection, Connected} : StoreConnection(c)
    \/ \E n \in {0, 2} : AccountChanges(n)
    \/ \E i \in 1..MaxRepoRuns : RepoPageResponds(i, "ok")
    \/ \E text \in {<<>>, <<"a">>, <<"B">>} : RepoInputChange(text)
    \/ RepoDropdownSet(FALSE)
    \/ \E k \in 1..2 : RepoOptionClick(k)
    \/ RepoCreateNewClick
    \/ \E i \in 1..Len(branchFetches), ok \in BOOLEAN : BranchesRespond(i, ok)

SpecBranches == Init /\ [][NextBranches]_vars

\* The comboboxes: texts with blanks around and in another case than the
\* listed names, the keys, the clicks, and the lists arriving meanwhile.
ComboTexts == {<<>>, <<" ">>, <<"a">>, <<"a", " ">>, <<"B">>}

NextCombo ==
    \/ OpenDialog
    \/ StoreConnection(Connected)
    \/ AccountChanges(MaxListed)
    \/ \E i \in 1..MaxRepoRuns : RepoPageResponds(i, "ok")
    \/ \E i \in 1..Len(branchFetches) : BranchesRespond(i, TRUE)
    \/ \E text \in ComboTexts : RepoInputChange(text)
    \/ \E open \in BOOLEAN : RepoDropdownSet(open)
    \/ \E k \in 1..MaxListed : RepoOptionClick(k)
    \/ RepoCreateNewClick
    \/ \E key \in Keys : handleRepoKeyDown(key)
    \/ \E text \in ComboTexts : BranchInputChange(text)
    \/ \E open \in BOOLEAN : BranchDropdownSet(open)
    \/ \E k \in 1..3 : BranchOptionClick(k)
    \/ BranchCreateNewClick
    \/ \E key \in Keys : handleBranchKeyDown(key)

SpecCombo == Init /\ [][NextCombo]_vars

\* Keyboard navigation while the lists are replaced under an open dropdown:
\* the dialog is closed and opened again, the account's listing shrinks.
NextNavigate ==
    \/ OpenDialog
    \/ HandleClose
    \/ StoreConnection(Connected)
    \/ \E n \in {1, MaxListed + 1} : AccountChanges(n)
    \/ \E i \in 1..MaxRepoRuns : RepoPageResponds(i, "ok")
    \/ \E i \in 1..Len(branchFetches) : BranchesRespond(i, TRUE)
    \/ \E text \in {<<>>, <<"B">>} : RepoInputChange(text)
    \/ \E open \in BOOLEAN : RepoDropdownSet(open)
    \/ \E k \in 1..(MaxListed + 1) : RepoOptionClick(k)
    \/ \E key \in Keys : handleRepoKeyDown(key)
    \/ \E text \in {<<>>, <<"a">>} : BranchInputChange(text)
    \/ \E open \in BOOLEAN : BranchDropdownSet(open)
    \/ \E key \in Keys : handleBranchKeyDown(key)

SpecNavigate == Init /\ [][NextNavigate]_vars

\* ------------------------------------------------------------ properties

\* What the lookups of a submission found: an existing repository with an
\* existing branch or another visibility.
Collision(a) == a.repo = 200 /\ (a.ref = 200 \/ a.differs)

\* A step that invokes onPush.
OnPushInvoked == Len(pushes') > Len(pushes)

\* A step in which a handleSubmit's lookups end: without error, with one.
CheckCompletes == approval.stage = "none" /\ approval'.stage = "checked"
CheckAborts == approval.stage = "none" /\ approval'.stage = "failed"

\* C1: every onPush call follows a handleSubmit that passed validation and
\* whose lookups ended without error, the acceptance of the confirmation
\* dialog when the lookups found a collision, and the submission of the
\* commit-message dialog; there is no other way to an onPush call.
C1_PushOnlyAfterWorkflow ==
    /\ [](\A i \in 1..Len(pushes) :
            /\ pushes[i].via.stage = "checked"
            /\ Collision(pushes[i].via) => pushes[i].via.accepted)
    /\ [][OnPushInvoked => (CommitOffered /\ ~showCommitDialog')]_vars

C1_Witness ==
    \E i \in 1..Len(pushes) :
        /\ Collision(pushes[i].via)
        /\ pushes[i].via.accepted

\* C2: lookups that end without error open exactly one dialog: the
\* confirmation dialog when there is a collision, else the commit-message
\* dialog; a repository answered 404 leads to the commit-message dialog.
C2_OneDialogOpened ==
    [][CheckCompletes =>
        /\ showConfirmDialog' = Collision(approval')
        /\ showCommitDialog' = ~Collision(approval')
        /\ (approval'.repo = 404 => showCommitDialog' /\ ~showConfirmDialog')]_vars

C2_Witness ==
    /\ approval.stage = "checked" /\ approval.repo = 200
    /\ approval.ref = 404 /\ approval.differs
    /\ showConfirmDialog /\ ~showCommitDialog

\* C3: when onPush resolved with a URL the success dialog is shown and
\* createdRepoUrl is that URL; when it rejected the success dialog is not
\* shown and errorMessage is not empty; isLoading is false in both cases.
C3_PushOutcomeShown ==
    [][/\ (lastPush' # lastPush /\ lastPush'.outcome = "resolved") =>
            (showSuccessDialog' /\ createdRepoUrl' = lastPush'.url /\ ~isLoading')
       /\ (lastPush' # lastPush /\ lastPush'.outcome = "rejected") =>
            (~showSuccessDialog' /\ errorMessage' # "" /\ ~isLoading'
             /\ errorMessage' \in {lastPush'.message, PushFailedText})]_vars

C3_Witness ==
    /\ lastPush.outcome = "rejected" /\ lastPush.message = ""
    /\ errorMessage = PushFailedText /\ ~isLoading /\ ~showSuccessDialog

\* C5: a 404 of the repository lookup means no repository and a 404 of the
\* branch lookup means no branch; any other failure of a lookup aborts the
\* submission: errorMessage is set, no dialog is opened, onPush is not
\* called and isLoading ends false.
C5_LookupFailureAborts ==
    [][/\ CheckAborts =>
            /\ errorMessage' # ""
            /\ ~showConfirmDialog' /\ ~showCommitDialog'
            /\ pushes' = pushes
            /\ ~isLoading'
       /\ (CheckCompletes /\ approval'.repo = 404) =>
            (showCommitDialog' /\ errorMessage' = "")
       /\ (CheckCompletes /\ approval'.ref = 404) =>
            /\ errorMessage' = ""
            /\ showConfirmDialog' => ~confirmDialogMessage'.branchExists
       /\ ((approval'.repo \in {404, 200} /\ approval'.ref \in {0, 404, 200}
            /\ approval.stage = "none") => ~(approval'.stage = "failed"))]_vars

C5_Witness ==
    /\ approval.stage = "failed" /\ approval.repo = 200 /\ approval.ref = 500
    /\ errorMessage = CheckFailedText
    /\ ~isLoading /\ ~showConfirmDialog /\ ~showCommitDialog

\* C4: the list under 'Pushed Files' in the success dialog, and its count,
\* is the list of the files the completed push uploaded.
C4_PushedFilesAreListed ==
    (showSuccessDialog /\ lastPush.outcome = "resolved") =>
        PushedFilesShown = lastPush.files

\* The run in slot i ends in this step with a listing.
RunEndsOk(i) ==
    /\ repoRuns[i].active /\ ~repoRuns'[i].active
    /\ RepoPageResponds(i, "ok")

\* The pages of the run in slot i once its pending request is answered.
PagesWithAnswer(i) ==
    Append(repoRuns[i].pages, ListingPage(accountSize, repoRuns[i].page))

\* C6: when every page request succeeds, fetchRecentRepos asks for pages
\* 1, 2, 3, ... in this order, stops after the first page of fewer than
\* PerPage entries, and sets recentRepos to the pages answered, joined in
\* page order.
C6_ListingIsAllPagesInOrder ==
    /\ [](\A i \in 1..MaxRepoRuns : repoRuns[i].active =>
            /\ repoRuns[i].asked = [k \in 1..repoRuns[i].page |-> k]
            /\ Len(repoRuns[i].pages) = repoRuns[i].page - 1
            /\ \A k \in 1..Len(repoRuns[i].pages) :
                  Len(repoRuns[i].pages[k]) >= PerPage)
    /\ [][\A i \in 1..MaxRepoRuns : RunEndsOk(i) =>
            /\ recentRepos' = Flatten(PagesWithAnswer(i))
            /\ Len(PagesWithAnswer(i)[repoRuns[i].page]) < PerPage]_vars

\* A listing of a first page of PerPage entries and a second of one entry.
C6_Witness ==
    /\ Len(recentRepos) = PerPage + 1
    /\ \A k \in 1..Len(recentRepos) : recentRepos[k] = RepoAt(k)
    /\ \A i \in 1..MaxRepoRuns : ~repoRuns[i].active

\* C7: every fetchRecentRepos call finishes, given that every request is
\* answered and the account holds finitely many repositories; the loop ends
\* at the first error answer, the first unparsable answer, or the first page
\* of fewer than PerPage entries, an empty one included.  No slot holds a
\* running call forever: each is idle again and again.
C7_ListingRunFinishes ==
    /\ \A i \in 1..MaxRepoRuns : []<>(~repoRuns[i].active)
    /\ [][\A i \in 1..MaxRepoRuns, kind \in RepoResponses :
            (/\ repoRuns[i].active
             /\ RepoPageResponds(i, kind)
             /\ (kind # "ok" \/ Len(ListingPage(accountSize, repoRuns[i].page)) < PerPage))
            => ~repoRuns'[i].active]_vars

\* A run that ended at the empty page after a page of exactly PerPage.
C7_Witness ==
    /\ Len(recentRepos) = PerPage
    /\ accountSize = PerPage
    /\ \A i \in 1..MaxRepoRuns : ~repoRuns[i].active

\* C8: once no branch fetch is in flight, branchOptions is the branch list
\* of the selected repoName, or empty when repoName is blank or its fetch
\* failed, in whatever order overlapping fetches were answered.
C8_BranchOptionsOfSelectedRepo ==
    branchFetches = <<>> =>
        IF Trim(repoName) = <<>>
        THEN branchOptions = <<>>
        ELSE branchOptions \in {ServerBranches(repoName), <<>>}

\* A step that opens the dialog, and one that starts a listing.
DialogOpens == ~isOpen /\ isOpen'
ListingStarts == \E i \in 1..MaxRepoRuns : ~repoRuns[i].active /\ repoRuns'[i].active

\* C9: each time the dialog is opened, user is non-null exactly when the
\* stored connection has a user and a token, and a listing is started
\* exactly when that token is not blank.
C9_UserReflectsConnection ==
    [][DialogOpens =>
        /\ (user' # Null) <=> HasUserAndToken(connection)
        /\ ListingStarts <=>
              (HasUserAndToken(connection) /\ Trim(connection.token) # <<>>)]_vars

\* The dropdowns as rendered.
RepoDropdownShown == MainView /\ isOpen /\ isRepoDropdownOpen
BranchDropdownShown == MainView /\ isOpen /\ isBranchDropdownOpen /\ repoName # <<>>

\* The query names an entry of the list, blanks around and case aside.
NamesEntry(options, query) ==
    \E i \in 1..Len(options) : ToLower(options[i]) = ToLower(Trim(query))

\* C10: in both comboboxes, a query that is not blank and filters the list
\* to nothing is offered 'create new' (the dropdown never shows its
\* nothing-found text for such a query), and 'create new' is not offered
\* for a query that names an existing entry.
C10_CreateNewWhenNothingMatches ==
    /\ RepoDropdownShown =>
        /\ (Trim(repoSearchQuery) # <<>> /\ Len(filteredReposList) = 0)
              => showCreateNewRepo
        /\ Trim(repoSearchQuery) # <<>>
              => ~ShowsNothingFound(filteredReposList, showCreateNewRepo)
        /\ NamesEntry(Names(recentRepos), repoSearchQuery) => ~showCreateNewRepo
    /\ BranchDropdownShown =>
        /\ (Trim(branchSearchQuery) # <<>> /\ Len(filteredBranchesList) = 0)
              => showCreateNewBranch
        /\ Trim(branchSearchQuery) # <<>>
              => ~ShowsNothingFound(filteredBranchesList, showCreateNewBranch)
        /\ NamesEntry(branchOptions, branchSearchQuery) => ~showCreateNewBranch

\* The entry holds the query somewhere, letter case aside.
HoldsIgnoringCase(entry, query) ==
    \E k \in 0..(Len(entry) - Len(query)) :
        \A j \in 1..Len(query) : ToLowerChar(entry[k + j]) = ToLowerChar(query[j])

\* The entries a query lists: all of them for a query of blanks.
Listed(options, query) ==
    IF \A j \in 1..Len(query) : query[j] \in WhiteSpace
    THEN options
    ELSE SelectSeq(options, LAMBDA o : HoldsIgnoringCase(o, query))

\* C11: in both comboboxes the dropdown lists exactly the entries of the
\* source list that hold the typed query as a substring, letter case aside,
\* in the source list's order; an empty or blank query lists every entry.
C11_ListedAreTheMatches ==
    /\ filteredReposList = Listed(Names(recentRepos), repoSearchQuery)
    /\ filteredBranchesList = Listed(branchOptions, branchSearchQuery)

\* The query B lists the repository Ab alone, and a the branches a and aB
\* after main.
C11_Witness ==
    /\ RepoDropdownShown
    /\ repoSearchQuery = <<"B">> /\ Len(recentRepos) = 2
    /\ filteredReposList = << <<"A", "b">> >>
    /\ branchSearchQuery = <<"a">> /\ Len(filteredBranchesList) = 3

\* The options of an open dropdown: the filtered entries, then 'create new'
\* when offered.  Their number, and the focus after each arrow key (indexes
\* from 0; an index on no option counts as no focus).
OptionCount(list, createNew) == Len(list) + (IF createNew THEN 1 ELSE 0)
RepoOptionCount == OptionCount(filteredReposList, showCreateNewRepo)
BranchOptionCount == OptionCount(filteredBranchesList, showCreateNewBranch)
NextOption(focus, n) == IF focus \in 0..(n - 2) THEN focus + 1 ELSE 0
PreviousOption(focus, n) == IF focus \in 1..(n - 1) THEN focus - 1 ELSE n - 1

\* C12: with a dropdown open and options in it, ArrowDown moves the focus to
\* the next option and from the last to the first, ArrowUp to the previous
\* option and from the first, or from no focus, to the last; with the
\* dropdown closed the key handler changes nothing.
C12_ArrowKeysWalkTheOptions ==
    [][/\ (isRepoDropdownOpen /\ RepoOptionCount > 0 /\ handleRepoKeyDown("ArrowDown"))
            => focusedRepoIndex' = NextOption(focusedRepoIndex, RepoOptionCount)
       /\ (isRepoDropdownOpen /\ RepoOptionCount > 0 /\ handleRepoKeyDown("ArrowUp"))
            => focusedRepoIndex' = PreviousOption(focusedRepoIndex, RepoOptionCount)
       /\ (isBranchDropdownOpen /\ BranchOptionCount > 0 /\ handleBranchKeyDown("ArrowDown"))
            => focusedBranchIndex' = NextOption(focusedBranchIndex, BranchOptionCount)
       /\ (isBranchDropdownOpen /\ BranchOptionCount > 0 /\ handleBranchKeyDown("ArrowUp"))
            => focusedBranchIndex' = PreviousOption(focusedBranchIndex, BranchOptionCount)
       /\ (~isRepoDropdownOpen /\ \E key \in Keys : handleRepoKeyDown(key))
            => UNCHANGED vars
       /\ (~isBranchDropdownOpen /\ \E key \in Keys : handleBranchKeyDown(key))
            => UNCHANGED vars]_vars

\* What Enter does in an open dropdown of entries list with the focus index
\* focus, 'create new' offered or not.
EnterOutcome(focus, list, createNew, query, name, name2, open2) ==
    IF focus \in 0..(Len(list) - 1)
    THEN name2 = list[focus + 1] /\ ~open2
    ELSE IF createNew /\ (focus = Len(list) \/ Len(list) = 0)
    THEN name2 = Trim(query) /\ ~open2
    ELSE name2 = name /\ open2

\* Enter has something to pick.
EnterHasPick(focus, list, createNew) ==
    \/ focus \in 0..(Len(list) - 1)
    \/ createNew /\ (focus = Len(list) \/ Len(list) = 0)

\* C13: Enter with a dropdown open: with the focus on an entry, the selected
\* name becomes that entry's and the dropdown closes; with the focus on
\* 'create new', or 'create new' offered and no entry listed, the selected
\* name becomes the trimmed query and the dropdown closes; in every other
\* case the selected name and the dropdown stay as they are.  Whenever Enter
\* has something to pick, pressing it does pick.
C13_EnterPicks ==
    /\ [][/\ (isRepoDropdownOpen /\ handleRepoKeyDown("Enter")) =>
               EnterOutcome(focusedRepoIndex, filteredReposList,
                            showCreateNewRepo, repoSearchQuery, repoName,
                            repoName', isRepoDropdownOpen')
          /\ (isBranchDropdownOpen /\ handleBranchKeyDown("Enter")) =>
               EnterOutcome(focusedBranchIndex, filteredBranchesList,
                            showCreateNewBranch, branchSearchQuery, branchName,
                            branchName', isBranchDropdownOpen')]_vars
    /\ []((/\ RepoInputUsable /\ isRepoDropdownOpen
           /\ Len(branchFetches) < MaxBranchFetches
           /\ EnterHasPick(focusedRepoIndex, filteredReposList, showCreateNewRepo))
          => ENABLED (handleRepoKeyDown("Enter") /\ ~isRepoDropdownOpen'))
    /\ []((/\ BranchInputUsable /\ isBranchDropdownOpen
           /\ EnterHasPick(focusedBranchIndex, filteredBranchesList,
                           showCreateNewBranch))
          => ENABLED (handleBranchKeyDown("Enter") /\ ~isBranchDropdownOpen'))

\* Enter picked a listed repository (it alone leaves the input empty with a
\* name selected) and 'create new' for a branch no repository a holds.
C13_Witness ==
    /\ MainView /\ isOpen
    /\ repoName = <<"a">> /\ repoSearchQuery = <<>> /\ ~isRepoDropdownOpen
    /\ branchName = <<"B">> /\ branchSearchQuery = <<"B">>
    /\ ~isBranchDropdownOpen

\* C14: Escape with a dropdown open closes that dropdown and leaves the
\* selected repoName and branchName, both query texts, the other dropdown
\* and the submission workflow's state as they are.
C14_EscapeOnlyCloses ==
    /\ [][/\ (isRepoDropdownOpen /\ handleRepoKeyDown("Escape")) =>
               /\ ~isRepoDropdownOpen'
               /\ UNCHANGED <<repoName, branchName, repoSearchQuery,
                              branchSearchQuery, isBranchDropdownOpen,
                              dialogVars, checks, pushes>>
          /\ (isBranchDropdownOpen /\ handleBranchKeyDown("Escape")) =>
               /\ ~isBranchDropdownOpen'
               /\ UNCHANGED <<repoName, branchName, repoSearchQuery,
                              branchSearchQuery, isRepoDropdownOpen,
                              dialogVars, checks, pushes>>]_vars
    /\ []((RepoInputUsable /\ isRepoDropdownOpen)
          => ENABLED (handleRepoKeyDown("Escape") /\ ~isRepoDropdownOpen'))
    /\ []((BranchInputUsable /\ isBranchDropdownOpen)
          => ENABLED (handleBranchKeyDown("Escape") /\ ~isBranchDropdownOpen'))

\* A dropdown closed over a query typed and not picked.
C14_Witness ==
    /\ MainView /\ isOpen
    /\ ~isRepoDropdownOpen /\ repoSearchQuery = <<"a", " ">> /\ repoName = <<>>
    /\ focusedRepoIndex = -1

\* C15: the repoName, branchName and isPrivate handed to onPush are the ones
\* the handleSubmit leading to the call validated and looked up; repoName is
\* not blank and branchName matches the branch pattern, whatever was edited
\* or closed while the lookups were in flight or a dialog was open.
C15_PushedIsChecked ==
    \A i \in 1..Len(pushes) :
        /\ pushes[i].repoName = pushes[i].via.checked.repoName
        /\ pushes[i].branchName = pushes[i].via.checked.branchName
        /\ pushes[i].isPrivate = pushes[i].via.checked.isPrivate
        /\ Trim(pushes[i].repoName) # <<>>
        /\ BranchPatternTest(pushes[i].branchName)

\* C16: while the dialog is closed, and so when it is opened again, the
\* form, the comboboxes, the messages, isLoading and the three dialog flags
\* have their initial values, also when lookups or a push started before
\* the close are answered after it.
C16_ClosedMeansReset ==
    ~isOpen =>
        /\ repoName = <<>> /\ repoSearchQuery = <<>>
        /\ branchName = Main /\ branchSearchQuery = <<>>
        /\ ~isPrivate
        /\ ~isRepoDropdownOpen /\ ~isBranchDropdownOpen
        /\ focusedRepoIndex = -1 /\ focusedBranchIndex = -1
        /\ errorMessage = "" /\ createdRepoUrl = ""
        /\ commitMessage = InitialCommit
        /\ confirmDialogMessage = NoMessage
        /\ ~isLoading
        /\ ~showSuccessDialog /\ ~showConfirmDialog /\ ~showCommitDialog

\* A step in which a listing request is answered 401.
Answered401 ==
    \E i \in 1..MaxRepoRuns : repoRuns[i].active /\ RepoPageResponds(i, "unauthorized")

\* Without a stored connection nothing is pushed: handleSubmit ends with the
\* connect-first error and no lookup, handleCommitProceed with an error and
\* isLoading false.
NoPushWhileDisconnected ==
    /\ ~connection.present => ~OnPushInvoked
    /\ (~connection.present /\ HandleSubmit) =>
          (errorMessage' = NotConnectedText /\ checks' = checks /\ ~isLoading')
    /\ (~connection.present /\ HandleCommitProceed) =>
          (errorMessage' # "" /\ ~isLoading' /\ pushes' = pushes)

\* C17 as stated: a listing request answered 401 leaves no stored connection
\* and user null; from then on, until a connection is stored again, onPush is
\* not called.
C17_UnauthorizedDisconnects ==
    [][/\ Answered401 => (connection' = NoConnection /\ user' = Null)
       /\ NoPushWhileDisconnected]_vars

\* C17, amended: the same for a 401 that arrives while a connection is
\* stored; a 401 that finds the connection already removed leaves user as it
\* is.
C17_UnauthorizedDisconnectsStored ==
    [][/\ (Answered401 /\ connection.present) =>
            (connection' = NoConnection /\ user' = Null)
       /\ NoPushWhileDisconnected]_vars

\* A 401 arrived after a submission had been looked up: the commit-message
\* dialog is flagged, no connection is stored and user is null.
C17_Witness ==
    /\ isOpen /\ user = Null /\ ~connection.present
    /\ showCommitDialog /\ approval.stage = "checked"
    /\ \A i \in 1..MaxRepoRuns : ~repoRuns[i].active

\* C18: at most one onPush call and at most one existence check are in
\* flight, and never both, whatever the user does through the enabled
\* buttons.
C18_OneOperationInFlight ==
    /\ Len(pushes) <= 1
    /\ Len(checks) <= 1
    /\ Len(pushes) + Len(checks) <= 1

\* A push in flight under the main form, filled in and its button disabled.
C18_Witness ==
    /\ Len(pushes) = 1 /\ Len(checks) = 0
    /\ MainFormActive /\ isLoading /\ ~SubmitOffered
    /\ repoSearchQuery # <<>> /\ branchSearchQuery # <<>>

\* C19: isLoading is true exactly while an existence check or a push is in
\* flight, and every way out of either leaves it false.
C19_LoadingIffInFlight ==
    /\ [](isLoading <=> (Len(checks) + Len(pushes) > 0))
    /\ [][(Len(checks') < Len(checks) \/ Len(pushes') < Len(pushes))
            => ~isLoading']_vars

\* Lookups that ended asking for confirmation, with isLoading false again.
C19_Witness ==
    /\ approval.stage = "checked" /\ showConfirmDialog
    /\ ~isLoading /\ Len(checks) = 0 /\ Len(pushes) = 0

\* C20: whenever handleSubmit runs, repoName is the trimmed text of the
\* repository input and branchName the trimmed text of the branch input,
\* also after text was typed and no option picked, and in a dialog just
\* opened.
C20_SubmittedIsDisplayed ==
    [][HandleSubmit =>
        /\ repoName = Trim(repoSearchQuery)
        /\ branchName = Trim(branchSearchQuery)]_vars

\* C21: each combobox's focus index is -1 or the index of an option of its
\* dropdown: one of the filtered entries, or 'create new' when offered,
\* whatever keys were pressed, text typed, or list replaced meanwhile.
C21_FocusIsAnOptionOrNone ==
    /\ focusedRepoIndex \in -1..(RepoOptionCount - 1)
    /\ focusedBranchIndex \in -1..(BranchOptionCount - 1)

\* C22: Enter on a focused option leaves the component in the state a click
\* on that option leaves it in (selected name, input text, dropdown closed),
\* for listed entries and for 'create new', in both comboboxes.
C22_EnterIsClick ==
    [][/\ \A k \in 1..Len(filteredReposList) :
            (isRepoDropdownOpen /\ focusedRepoIndex = k - 1
             /\ handleRepoKeyDown("Enter")) => RepoOptionClick(k)
       /\ (isRepoDropdownOpen /\ showCreateNewRepo
           /\ focusedRepoIndex = Len(filteredReposList)
           /\ handleRepoKeyDown("Enter")) => RepoCreateNewClick
       /\ \A k \in 1..Len(filteredBranchesList) :
            (isBranchDropdownOpen /\ focusedBranchIndex = k - 1
             /\ handleBranchKeyDown("Enter")) => BranchOptionClick(k)
       /\ (isBranchDropdownOpen /\ showCreateNewBranch
           /\ focusedBranchIndex = Len(filteredBranchesList)
           /\ handleBranchKeyDown("Enter")) => BranchCreateNewClick]_vars

\* The request of the run in slot i is answered with a failure of this kind.
RunFails(i, kind) == repoRuns[i].active /\ RepoPageResponds(i, kind)

\* C23 as stated: a fetchRecentRepos run that fails on a page (error status,
\* unparsable body, exception) leaves recentRepos as it was; the pages it had
\* fetched are dropped.
C23_FailedRunKeepsListing ==
    [][\A i \in 1..MaxRepoRuns, kind \in RepoResponses \ {"ok"} :
          RunFails(i, kind) => recentRepos' = recentRepos]_vars

\* C23, amended: a run that fails never publishes the pages it had fetched;
\* an error status or an exception leaves recentRepos as it was, an
\* unparsable body empties it.
C23_FailedRunPublishesNoPage ==
    [][\A i \in 1..MaxRepoRuns :
          /\ \A kind \in {"unauthorized", "error", "exception"} :
                RunFails(i, kind) => recentRepos' = recentRepos
          /\ RunFails(i, "unparsable") => recentRepos' = <<>>]_vars

\* A listing of one repository kept after a later run was answered 401, the
\* account holding a full page and one more by then.
C23_Witness ==
    /\ isOpen /\ user = Null /\ ~connection.present
    /\ Len(recentRepos) = 1 /\ accountSize = PerPage + 1
    /\ \A i \in 1..MaxRepoRuns : ~repoRuns[i].active

====
